---- MODULE Spec2Model ----
(***************************************************************************)
(* GdogTAK: the capture-analysis tool (tools/btsnoop_compare.py) and the   *)
(* BLE-to-TAK bridge (scripts/bridge.py).                                  *)
(*                                                                         *)
(* Every function of the two scripts that is analysed here is a pure       *)
(* function of its arguments.  A behaviour of a specification is one call: *)
(* the initial state holds the arguments (args), the single action of the  *)
(* specification applies the function and stores what it returns (ret).    *)
(*                                                                         *)
(* Python values.  An int is unbounded in Python and 32 bits wide in TLC,  *)
(* so an int that can leave that range is a record [neg, mag] whose mag is *)
(* the magnitude as a sequence of bits, least significant first, without   *)
(* leading zeros.  A float is an IEEE-754 double: [neg, mant, exp] stands  *)
(* for (+/-) mant * 2^exp, mant an odd number of at most 53 bits (or empty *)
(* for 0.0).  Bytes are integers 0..255, a bytes object is a sequence.     *)
(* Python indices start at 0, TLA+ sequences at 1.                         *)
(***************************************************************************)
EXTENDS Integers, Sequences, FiniteSets, TLC

VARIABLES
    pc,     \* "call" before the function is applied, "done" after
    args,   \* the arguments of the call, a record
    ret     \* what the call returned, a record; [pending |-> TRUE] before

vars == <<pc, args, ret>>

Pending == [pending |-> TRUE]

\* A Python loop: Body(i, s) is one iteration, s the loop's state before it and
\* the result the state after it; the iterations lo..hi run in order.  (The
\* range is halved so that a long loop does not nest deeply; the first half
\* is evaluated before the second starts.)
RECURSIVE ForRange(_, _, _, _)
ForRange(Body(_, _), lo, hi, s) ==
    IF lo > hi THEN s
    ELSE IF lo = hi THEN Body(lo, s)
    ELSE LET mid  == (lo + hi) \div 2
             left == ForRange(Body, lo, mid, s)
         IN  IF left = left THEN ForRange(Body, mid + 1, hi, left) ELSE left

Max(a, b) == IF a >= b THEN a ELSE b
Min(a, b) == IF a <= b THEN a ELSE b

(***************************************************************************)
(* Python int: bit sequences                                               *)
(***************************************************************************)

\* bit k (1-based) of a bit sequence, 0 beyond its end
BitAt(b, k) == IF k \in DOMAIN b THEN b[k] ELSE 0

\* index of the most significant 1, 0 when there is none
HighBit(b) ==
    IF \A k \in DOMAIN b : b[k] = 0 THEN 0
    ELSE CHOOSE k \in DOMAIN b : b[k] = 1 /\ \A j \in (k + 1)..Len(b) : b[j] = 0

\* index of the least significant 1, 0 when there is none
LowBit(b) ==
    IF \A k \in DOMAIN b : b[k] = 0 THEN 0
    ELSE CHOOSE k \in DOMAIN b : b[k] = 1 /\ \A j \in 1..(k - 1) : b[j] = 0

\* an int has one representation: no leading zeros
Normalize(b) == SubSeq(b, 1, HighBit(b))

\* the bits of a number small enough for TLC
RECURSIVE NatBits(_)
NatBits(n) == IF n = 0 THEN <<>> ELSE <<n % 2>> \o NatBits(n \div 2)

\* the number a short bit sequence (under 31 bits) stands for
RECURSIVE BitsNat(_)
BitsNat(b) == IF b = <<>> THEN 0 ELSE b[1] + 2 * BitsNat(Tail(b))

\* x << s
PyShl(b, s) == IF b = <<>> THEN <<>> ELSE [k \in 1..s |-> 0] \o b

\* x >> 1
PyShr1(b) == IF b = <<>> THEN <<>> ELSE Tail(b)

\* x | y
PyOr(a, b) ==
    Normalize([k \in 1..Max(Len(a), Len(b)) |->
                  IF BitAt(a, k) = 1 \/ BitAt(b, k) = 1 THEN 1 ELSE 0])

\* x + 1
Inc(b) ==
    LET t == IF \A k \in DOMAIN b : b[k] = 1 THEN Len(b) + 1
             ELSE CHOOSE k \in DOMAIN b : b[k] = 0 /\ \A j \in 1..(k - 1) : b[j] = 1
    IN  [k \in 1..Max(Len(b), t) |-> IF k < t THEN 0 ELSE IF k = t THEN 1 ELSE b[k]]

\* x + y: the carry into bit k comes from a lower bit where both are 1 and
\* passes through the bits between where at least one is 1
BitAdd(a, b) ==
    LET n == Max(Len(a), Len(b)) + 1
        carry(k) == \E j \in 1..(k - 1) :
                       /\ BitAt(a, j) = 1 /\ BitAt(b, j) = 1
                       /\ \A i \in (j + 1)..(k - 1) : BitAt(a, i) = 1 \/ BitAt(b, i) = 1
    IN  Normalize([k \in 1..n |->
                      (BitAt(a, k) + BitAt(b, k) + (IF carry(k) THEN 1 ELSE 0)) % 2])

\* x * y, y the shorter factor: the sum of x << k over the 1 bits of y
RECURSIVE BitMul(_, _)
BitMul(a, b) ==
    IF b = <<>> THEN <<>>
    ELSE LET rest == PyShl(BitMul(a, Tail(b)), 1)
         IN  IF b[1] = 1 THEN BitAdd(a, rest) ELSE rest


\* a Python int from a TLC integer
PyInt(n) == [neg |-> n < 0, mag |-> NatBits(IF n < 0 THEN 0 - n ELSE n)]

(***************************************************************************)
(* Python float: IEEE-754 binary64, round to nearest, ties to even         *)
(***************************************************************************)

\* the significand of a double holds 53 bits
MantissaBits == 53

FloatZero == [neg |-> FALSE, mant |-> <<>>, exp |-> 0]

\* the double (+/-) mant * 2^exp in its one representation (mant odd)
MkFloat(neg, mant, exp) ==
    IF HighBit(mant) = 0 THEN FloatZero
    ELSE [neg  |-> neg,
          mant |-> SubSeq(mant, LowBit(mant), HighBit(mant)),
          exp  |-> exp + LowBit(mant) - 1]

\* mant * 2^exp rounded to a significand of MantissaBits bits
RoundNearestEven(mant, exp) ==
    LET m == Normalize(mant)
        d == Len(m) - MantissaBits
    IN  IF d <= 0 THEN [mant |-> m, exp |-> exp]
        ELSE LET kept   == SubSeq(m, d + 1, Len(m))
                 guard  == m[d]
                 sticky == \E k \in 1..(d - 1) : m[k] = 1
                 up     == guard = 1 /\ (sticky \/ kept[1] = 1)
             IN  [mant |-> IF up THEN Inc(kept) ELSE kept, exp |-> exp + d]

Raised(exc) == [raise |-> exc]
IsRaise(x) == "raise" \in DOMAIN x

\* float(i) as int * float and int / float convert it: OverflowError when the
\* rounded value does not fit a double (2^1024 and above)
IntToFloat(i) ==
    LET r == RoundNearestEven(i.mag, 0)
    IN  IF r.exp + Len(r.mant) > 1024
        THEN Raised("OverflowError")
        ELSE MkFloat(i.neg, r.mant, r.exp)

\* x * y
FloatMul(x, y) ==
    LET a == IF Len(x.mant) >= Len(y.mant) THEN x.mant ELSE y.mant
        b == IF Len(x.mant) >= Len(y.mant) THEN y.mant ELSE x.mant
        r == RoundNearestEven(BitMul(a, b), x.exp + y.exp)
    IN  MkFloat(x.neg # y.neg, r.mant, r.exp)

\* long division by d of the bits of n, most significant first, followed by
\* 0 bits: the quotient bits, least significant first, and the remainder
LongDiv(n, d, steps) ==
    LET Step(k, s) ==
            LET r2 == 2 * s.r + BitAt(n, Len(n) - k + 1)
            IN  IF r2 >= d THEN [q |-> <<1>> \o s.q, r |-> r2 - d]
                           ELSE [q |-> <<0>> \o s.q, r |-> r2]
    IN  ForRange(Step, 1, steps, [q |-> <<>>, r |-> 0])

\* x / y for a divisor whose significand is under 2^24 (1000000.0 and 2^31 are):
\* the quotient to 80 bits past the point and a bit for the rest, then rounded
FloatDiv(x, y) ==
    LET frac == 27 + MantissaBits
        dv   == LongDiv(x.mant, BitsNat(y.mant), Len(x.mant) + frac)
        rest == IF dv.r = 0 THEN 0 ELSE 1
        r    == RoundNearestEven(<<rest>> \o dv.q, x.exp - y.exp - frac - 1)
    IN  MkFloat(x.neg # y.neg, r.mant, r.exp)

\* |x| < |y|
FloatMagLess(x, y) ==
    LET tx == x.exp + Len(x.mant)
        ty == y.exp + Len(y.mant)
        lo == Min(x.exp, y.exp)
        bx(p) == BitAt(x.mant, p - x.exp + 1)
        by(p) == BitAt(y.mant, p - y.exp + 1)
    IN  IF x.mant = <<>> THEN y.mant # <<>>
        ELSE IF y.mant = <<>> THEN FALSE
        ELSE \/ tx < ty
             \/ /\ tx = ty
                /\ \E p \in lo..(tx - 1) :
                     /\ bx(p) = 0 /\ by(p) = 1
                     /\ \A q \in (p + 1)..(tx - 1) : bx(q) = by(q)

\* x < y
FloatLess(x, y) ==
    IF x.neg /\ ~y.neg THEN TRUE
    ELSE IF ~x.neg /\ y.neg THEN FALSE
    ELSE IF x.neg THEN FloatMagLess(y, x)
    ELSE FloatMagLess(x, y)

\* x <= y
FloatLeq(x, y) == ~FloatLess(y, x)

\* the double of a TLC integer (exact: fewer than 53 bits)
Float(n) == MkFloat(n < 0, NatBits(IF n < 0 THEN 0 - n ELSE n), 0)

(***************************************************************************)
(* tools/btsnoop_compare.py: detect_sessions                               *)
(***************************************************************************)

SESSION_GAP_SECONDS == 30

\* 1_000_000.0
MICROS_PER_SECOND == Float(1000000)

\* (a - b) // 1_000_000 would lose the fraction of a second
FloorSeconds(a, b) == Float((a - b) \div 1000000)

\* (a - b) / 1_000_000.0 for two ts_us: the difference is an exact int, the
\* division converts it to a double and divides in floating point
TrueDivSeconds(a, b) == FloatDiv(IntToFloat(PyInt(a - b)), MICROS_PER_SECOND)

\* the session that is open when the loop ends is closed at the last packet
NoLastSession(sessions, session_start, packets) == sessions

LastSession(sessions, session_start, packets) ==
    Append(sessions, <<session_start, Len(packets) - 1>>)

\* packets: a sequence of [ts_us |-> ...]; the result is the list of
\* (start_idx, end_idx) tuples, indices counted from 0 as in Python
detect_sessions(packets) ==
    LET Body(i, s) ==
            LET gap == TrueDivSeconds(packets[i + 1].ts_us, packets[i].ts_us)
            IN  IF FloatLess(Float(SESSION_GAP_SECONDS), gap)
                THEN [sessions      |-> Append(s.sessions, <<s.session_start, i - 1>>),
                      session_start |-> i]
                ELSE s
        end == ForRange(Body, 1, Len(packets) - 1,
                        [sessions |-> <<>>, session_start |-> 0])
    IN  IF packets = <<>> THEN <<>>
        ELSE LastSession(end.sessions, end.session_start, packets)

\* ---- one call of detect_sessions ----

\* the longest packet list of a call
MaxPackets == 4

\* timestamps in microseconds: gaps of 1 us, 1 s, 29.999999 s, 30 s exactly,
\* 30.000001 s, 39 s and more, in and out of order
TsValues == {0, 1, 1000000, 30000000, 30000001, 40000000, 41000000, 60000001}

RECURSIVE SeqsUpTo(_, _)
SeqsUpTo(S, n) ==
    IF n = 0 THEN {<<>>}
    ELSE LET shorter == SeqsUpTo(S, n - 1)
         IN  shorter \cup {Append(q, x) : q \in {r \in shorter : Len(r) = n - 1}, x \in S}

PacketLists == {[k \in DOMAIN q |-> [ts_us |-> q[k]]] : q \in SeqsUpTo(TsValues, MaxPackets)}

InitSessions ==
    /\ pc = "call"
    /\ args \in {[packets |-> p] : p \in PacketLists}
    /\ ret = Pending

DetectSessions ==
    /\ pc = "call"
    /\ ret' = [sessions |-> detect_sessions(args.packets)]
    /\ pc' = "done"
    /\ UNCHANGED args

NextSessions == DetectSessions

SpecSessions == InitSessions /\ [][NextSessions]_vars

\* the index of the session that holds packet idx (0 when none does)
SessionOf(sessions, idx) ==
    IF \E k \in DOMAIN sessions : sessions[k][1] <= idx /\ idx <= sessions[k][2]
    THEN CHOOSE k \in DOMAIN sessions : sessions[k][1] <= idx /\ idx <= sessions[k][2]
    ELSE 0

Chronological(packets) ==
    \A k \in 1..(Len(packets) - 1) : packets[k].ts_us <= packets[k + 1].ts_us

\* C1: the sessions partition the packet list: each range has start <= end, the
\* first starts at 0, each next one starts right after the previous end, the
\* last ends at len - 1; no packets give no session, one packet gives (0, 0).
C1_SessionsPartition ==
    pc = "done" =>
        LET s == ret.sessions
            n == Len(args.packets)
        IN  /\ n = 0 => s = <<>>
            /\ n = 1 => s = << <<0, 0>> >>
            /\ n > 0 =>
                 /\ Len(s) >= 1
                 /\ s[1][1] = 0
                 /\ s[Len(s)][2] = n - 1
                 /\ \A k \in DOMAIN s : s[k][1] <= s[k][2]
                 /\ \A k \in 1..(Len(s) - 1) : s[k + 1][1] = s[k][2] + 1

C1_Witness ==
    /\ pc = "done"
    /\ Len(args.packets) = 4
    /\ Len(ret.sessions) = 3

\* C2: in a chronological packet list, packets i-1 and i are in different
\* sessions exactly when ts[i] - ts[i-1] > 30,000,000 us, compared as
\* integers; [0, 1000000, 40000000, 41000000] gives (0,1) and (2,3).
C2_SplitIffGapOver30s ==
    pc = "done" /\ Chronological(args.packets) =>
        /\ \A i \in 1..(Len(args.packets) - 1) :
             (SessionOf(ret.sessions, i - 1) # SessionOf(ret.sessions, i))
               <=> (args.packets[i + 1].ts_us - args.packets[i].ts_us > 30000000)
        /\ args.packets = <<[ts_us |-> 0], [ts_us |-> 1000000],
                            [ts_us |-> 40000000], [ts_us |-> 41000000]>>
             => ret.sessions = << <<0, 1>>, <<2, 3>> >>

\* a gap of exactly 30 s, which does not split, before one of 30 s and 1 us,
\* which does
C2_Witness ==
    /\ pc = "done"
    /\ args.packets = <<[ts_us |-> 0], [ts_us |-> 30000000],
                        [ts_us |-> 60000001], [ts_us |-> 60000001]>>
    /\ ret.sessions = << <<0, 1>>, <<2, 3>> >>

(***************************************************************************)
(* tools/btsnoop_compare.py: extract_command                               *)
(***************************************************************************)

\* Garmin command type labels, keyed by (category, id)
CMD_LABELS ==
       (<<\h02, \h08>> :> "POLL_CONFIG")
    @@ (<<\h02, \h09>> :> "CONFIG")
    @@ (<<\h02, \h0A>> :> "CONFIG_0A")
    @@ (<<\h02, \h0B>> :> "CONFIG_0B")
    @@ (<<\h02, \h0C>> :> "CONFIG_0C")
    @@ (<<\h02, \h0D>> :> "CONFIG_0D")
    @@ (<<\h02, \h0E>> :> "CONFIG_0E")
    @@ (<<\h02, \h10>> :> "CMD_10")
    @@ (<<\h02, \h11>> :> "COLLAR_SLOT")
    @@ (<<\h02, \h12>> :> "CMD_12")
    @@ (<<\h02, \h13>> :> "CMD_13")
    @@ (<<\h02, \h14>> :> "CMD_14")
    @@ (<<\h02, \h15>> :> "CMD_15")
    @@ (<<\h02, \h16>> :> "CONFIG_16")
    @@ (<<\h02, \h17>> :> "CMD_17")
    @@ (<<\h02, \h18>> :> "CMD_18")
    @@ (<<\h02, \h19>> :> "CMD_19")
    @@ (<<\h02, \h1A>> :> "CMD_1A")
    @@ (<<\h02, \h1B>> :> "CMD_1B")
    @@ (<<\h02, \h1C>> :> "CMD_1C")
    @@ (<<\h02, \h1D>> :> "POS_QUERY")
    @@ (<<\h02, \h1E>> :> "CMD_1E")
    @@ (<<\h02, \h1F>> :> "CMD_1F")
    @@ (<<\h02, \h20>> :> "CMD_20")
    @@ (<<\h02, \h29>> :> "RESP_29")
    @@ (<<\h02, \h2A>> :> "CMD_2A")
    @@ (<<\h02, \h2B>> :> "CMD_2B")
    @@ (<<\h02, \h2C>> :> "CMD_2C")
    @@ (<<\h02, \h30>> :> "CMD_30")
    @@ (<<\h02, \h31>> :> "CMD_31")
    @@ (<<\h02, \h32>> :> "CMD_32")
    @@ (<<\h02, \h33>> :> "CMD_33")
    @@ (<<\h02, \h34>> :> "CMD_34")
    @@ (<<\h02, \h35>> :> "COLLAR_RELAY")
    @@ (<<\h02, \h36>> :> "CMD_36")
    @@ (<<\h02, \h37>> :> "CMD_37")
    @@ (<<\h02, \h38>> :> "CMD_38")
    @@ (<<\h02, \h39>> :> "CMD_39")
    @@ (<<\h02, \h3A>> :> "CMD_3A")
    @@ (<<\h02, \h3B>> :> "CMD_3B")
    @@ (<<\h02, \h3C>> :> "POSITION_3C")
    @@ (<<\h02, \h3D>> :> "CMD_3D")
    @@ (<<\h02, \h3E>> :> "CMD_3E")
    @@ (<<\h02, \h40>> :> "CMD_40")
    @@ (<<\h02, \h41>> :> "CMD_41")
    @@ (<<\h02, \h42>> :> "CMD_42")
    @@ (<<\h02, \h43>> :> "CMD_43")
    @@ (<<\h02, \h44>> :> "DEVICE_REG")
    @@ (<<\h02, \h45>> :> "CMD_45")
    @@ (<<\h02, \h50>> :> "CMD_50")
    @@ (<<\h02, \h51>> :> "CMD_51")
    @@ (<<\h02, \h52>> :> "DEVICE_LIST")
    @@ (<<\h02, \h53>> :> "CMD_53")
    @@ (<<\h02, \h54>> :> "CMD_54")
    @@ (<<\h02, \h55>> :> "CMD_55")
    @@ (<<\h02, \h60>> :> "CMD_60")
    @@ (<<\h02, \h70>> :> "CMD_70")
    @@ (<<\h02, \h71>> :> "CMD_71")
    @@ (<<\h02, \h72>> :> "CMD_72")
    @@ (<<\h02, \h73>> :> "CMD_73")
    @@ (<<\h02, \h74>> :> "CMD_74")
    @@ (<<\h02, \h75>> :> "CMD_75")
    @@ (<<\h02, \h76>> :> "CMD_76")
    @@ (<<\h02, \h77>> :> "CMD_77")
    @@ (<<\h02, \h78>> :> "CMD_78")
    @@ (<<\h02, \h79>> :> "CMD_79")
    @@ (<<\h02, \h7A>> :> "POSITION_7A")
    @@ (<<\h02, \h7B>> :> "CMD_7B")
    @@ (<<\h00, \h00>> :> "KEEPALIVE")
    @@ (<<\h01, \h40>> :> "HANDSHAKE")

\* None, where a command tuple is expected
NoCmd == <<>>

HexDigits == <<"0", "1", "2", "3", "4", "5", "6", "7",
               "8", "9", "A", "B", "C", "D", "E", "F">>

\* f"{b:X}": upper-case hex without padding
FormatX(b) ==
    IF b < 16 THEN HexDigits[b + 1]
    ELSE HexDigits[(b \div 16) + 1] \o HexDigits[(b % 16) + 1]

\* f"{b:02X}" for a byte: upper-case hex, padded with 0 to two digits
Format02X(b) == HexDigits[(b \div 16) + 1] \o HexDigits[(b % 16) + 1]

\* a fallback label without the zero padding
cmd_label_unpadded(cmd_cat, cmd_id) ==
    IF <<cmd_cat, cmd_id>> \in DOMAIN CMD_LABELS
    THEN CMD_LABELS[<<cmd_cat, cmd_id>>]
    ELSE "CMD_" \o FormatX(cmd_cat) \o "_" \o FormatX(cmd_id)

\* CMD_LABELS.get(cmd_tuple, f"CMD_{cmd_cat:02X}_{cmd_id:02X}")
cmd_label(cmd_cat, cmd_id) ==
    IF <<cmd_cat, cmd_id>> \in DOMAIN CMD_LABELS
    THEN CMD_LABELS[<<cmd_cat, cmd_id>>]
    ELSE "CMD_" \o Format02X(cmd_cat) \o "_" \o Format02X(cmd_id)

\* len(data) <= 2 would take a bare header for a short packet
too_short_incl_header(data) == Len(data) <= 2

\* len(data) < 2
too_short(data) == Len(data) < 2

\* a command start whatever the first byte after the header
command_start_any_byte(payload) == Len(payload) >= 3

\* payload[0] == 0x00 and len(payload) >= 3
is_command_start(payload) == payload[1] = 0 /\ Len(payload) >= 3

\* the label of a fragmented start left as it is
frag_label_plain(label) == label

\* label = f"FRAG>{label}"
frag_label(label) == "FRAG>" \o label

\* the tuple (label, is_continuation_frag, cmd_tuple_or_none, frag_info_str)
CommandResult(label, is_cont, cmd, frag_str) ==
    [label |-> label, is_cont |-> is_cont, cmd |-> cmd, frag_info |-> frag_str]

extract_command(data) ==
    IF too_short(data) THEN CommandResult("TOO_SHORT", FALSE, NoCmd, "")
    ELSE
    LET first_byte  == data[1]
        second_byte == data[2]
        is_high_bit == first_byte >= 128            \* (first_byte & 0x80) != 0
        frag_str    == "[0x" \o Format02X(first_byte) \o " 0x"
                             \o Format02X(second_byte) \o "]"
        payload     == SubSeq(data, 3, Len(data))   \* data[2:]
    IN  IF Len(payload) = 0 THEN CommandResult("EMPTY_HDR", FALSE, NoCmd, frag_str)
        ELSE IF is_command_start(payload)
        THEN LET cmd_cat == payload[2]
                 cmd_id  == payload[3]
                 label   == cmd_label(cmd_cat, cmd_id)
             IN  CommandResult(IF is_high_bit THEN frag_label(label) ELSE label,
                               FALSE, <<cmd_cat, cmd_id>>, frag_str)
        ELSE IF is_high_bit
        THEN CommandResult("FRAG_DATA[0x" \o Format02X(payload[1]) \o "]",
                           TRUE, NoCmd, frag_str)
        ELSE CommandResult("DATA[0x" \o Format02X(payload[1]) \o "]",
                           FALSE, NoCmd, frag_str)

\* ---- one call of extract_command ----

\* the most bytes a packet carries after the command id
MaxTail == 1

HeaderBytes   == {\h00, \h7F, \h80, \hFF}
SeqBytes      == {\h00, \hFF}
StartBytes    == {\h00, \h01, \h80}
CategoryBytes == {\h00, \h01, \h02, \h03, \hFF}
IdBytes       == (0..\h7F) \cup {\h80, \hFF}
TailByte      == \hAA

\* [header byte 0, sequence number, first payload byte, category, id, tail...]
\* and every prefix of it
CommandPackets ==
    {<<>>}
    \cup {<<h>> : h \in HeaderBytes}
    \cup {<<h, q>> : h \in HeaderBytes, q \in SeqBytes}
    \cup {<<h, q, p>> : h \in HeaderBytes, q \in SeqBytes, p \in StartBytes}
    \cup {<<h, q, p, c>> : h \in HeaderBytes, q \in SeqBytes, p \in StartBytes,
                           c \in CategoryBytes}
    \cup {<<h, q, p, c, i>> \o [k \in 1..t |-> TailByte] :
             h \in HeaderBytes, q \in SeqBytes, p \in StartBytes,
             c \in CategoryBytes, i \in IdBytes, t \in 0..MaxTail}

InitCommand ==
    /\ pc = "call"
    /\ args \in {[data |-> d] : d \in CommandPackets}
    /\ ret = Pending

ExtractCommand ==
    /\ pc = "call"
    /\ ret' = extract_command(args.data)
    /\ pc' = "done"
    /\ UNCHANGED args

NextCommand == ExtractCommand

SpecCommand == InitCommand /\ [][NextCommand]_vars

\* C3: a payload [h0, seq, 0x00, category, id, ...] with bit 7 of h0 clear is a
\* command start with key (category, id), not a continuation, labelled from
\* CMD_LABELS or, for a pair not in the table, CMD_<cat>_<id> in two
\* upper-case hex digits each; every pair gets a label.
C3_CommandStartLabel ==
    pc = "done" /\ Len(args.data) >= 5 /\ args.data[1] < 128 /\ args.data[3] = 0 =>
        LET cat == args.data[4]
            id  == args.data[5]
        IN  /\ ret.cmd = <<cat, id>>
            /\ ret.is_cont = FALSE
            /\ <<cat, id>> \in DOMAIN CMD_LABELS => ret.label = CMD_LABELS[<<cat, id>>]
            /\ <<cat, id>> \notin DOMAIN CMD_LABELS =>
                 ret.label = "CMD_" \o HexDigits[(cat \div 16) + 1] \o HexDigits[(cat % 16) + 1]
                             \o "_" \o HexDigits[(id \div 16) + 1] \o HexDigits[(id % 16) + 1]
            /\ <<cat, id>> = <<2, 60>>   => ret.label = "POSITION_3C"
            /\ <<cat, id>> = <<1, 64>>   => ret.label = "HANDSHAKE"
            /\ <<cat, id>> = <<0, 0>>    => ret.label = "KEEPALIVE"
            /\ <<cat, id>> = <<2, 15>>   => ret.label = "CMD_02_0F"
            /\ <<cat, id>> = <<3, 255>>  => ret.label = "CMD_03_FF"
            /\ <<cat, id>> = <<255, 10>> => ret.label = "CMD_FF_0A"

\* a pair outside the table whose digits need the zero padding
C3_Witness ==
    /\ pc = "done"
    /\ args.data = <<\h7F, \hFF, \h00, \h02, \h0F, \hAA>>
    /\ ret.label = "CMD_02_0F"
    /\ ret.cmd = <<2, 15>>

\* C4: a payload of 0 or 1 bytes is TOO_SHORT, one of exactly 2 bytes is
\* EMPTY_HDR whatever the two bytes are; neither has a command key or is
\* flagged as continuation.
C4_ShortPayloads ==
    pc = "done" =>
        /\ Len(args.data) < 2 =>
             ret.label = "TOO_SHORT" /\ ret.cmd = NoCmd /\ ret.is_cont = FALSE
        /\ Len(args.data) = 2 =>
             ret.label = "EMPTY_HDR" /\ ret.cmd = NoCmd /\ ret.is_cont = FALSE

\* a bare header with the continuation bit set
C4_Witness ==
    /\ pc = "done"
    /\ args.data = <<\h80, \hFF>>
    /\ ret.label = "EMPTY_HDR"
    /\ ret.is_cont = FALSE

(***************************************************************************)
(* scripts/bridge.py: decode_varint, decode_sint32, semicircles_to_degrees *)
(***************************************************************************)

\* shift += 8 would leave a hole between the groups
next_shift_byte(shift) == shift + 8

\* shift += 7
next_shift(shift) == shift + 7

\* a loop that never breaks
never_last_byte(byte) == FALSE

\* not (byte & 0x80)
is_last_byte(byte) == byte < 128

\* data: bytes, offset: index counted from 0.  The while loop runs at most once
\* per byte from offset on; stop is set by its break and by its condition.
\* Returns (result, consumed) as [value, consumed], value a bit sequence.
decode_varint(data, offset) ==
    LET Body(n, s) ==
            IF s.stop \/ ~(offset + s.consumed < Len(data))
            THEN [s EXCEPT !.stop = TRUE]
            ELSE LET byte == data[offset + s.consumed + 1]
                 IN  [result   |-> PyOr(s.result, PyShl(NatBits(byte % 128), s.shift)),
                      consumed |-> s.consumed + 1,
                      stop     |-> is_last_byte(byte),
                      shift    |-> IF is_last_byte(byte) THEN s.shift
                                   ELSE next_shift(s.shift)]
        end == ForRange(Body, 1, Len(data) - offset,
                        [result |-> <<>>, shift |-> 0, consumed |-> 0, stop |-> FALSE])
    IN  [value |-> end.result, consumed |-> end.consumed]

\* (varint >> 1) ^ (varint & 1), the sign bit not negated
decode_sint32_not_negated(varint) ==
    LET half == PyShr1(varint)
    IN  [neg |-> FALSE,
         mag |-> IF BitAt(varint, 1) = 0 THEN half
                 ELSE Normalize([k \in 1..Max(Len(half), 1) |->
                                    IF k = 1 THEN 1 - BitAt(half, 1) ELSE half[k]])]

\* (varint >> 1) ^ -(varint & 1): -(varint & 1) is 0 or -1, x ^ 0 is x and
\* x ^ -1 is ~x, that is -(x + 1)
decode_sint32(varint) ==
    IF BitAt(varint, 1) = 0
    THEN [neg |-> FALSE, mag |-> PyShr1(varint)]
    ELSE [neg |-> TRUE, mag |-> Inc(PyShr1(varint))]

\* 2147483648.0
TWO_POW_31 == [neg |-> FALSE, mant |-> <<1>>, exp |-> 31]

\* sc * (180.0 / 2147483648.0), sc a Python int: a float, or OverflowError
\* when sc does not convert to a float
semicircles_to_degrees(sc) ==
    LET f == IntToFloat(sc)
    IN  IF IsRaise(f) THEN f ELSE FloatMul(f, FloatDiv(Float(180), TWO_POW_31))

(***************************************************************************)
(* scripts/bridge.py: parse_ble_notification                               *)
(***************************************************************************)

DEVICE_COLLAR == 53     \* 0x35

\* return None
None == [none |-> TRUE]

\* DogPosition(lat=, lon=, timestamp=); altitude, speed and heading keep None
DogPosition(lat, lon, timestamp) == [lat |-> lat, lon |-> lon, timestamp |-> timestamp]

IsPosition(x) == "lat" \in DOMAIN x

\* the three bytes at index j (from 0) are a, b, c
BytesAt(data, j, a, b, c) ==
    /\ j + 3 <= Len(data)
    /\ data[j + 1] = a /\ data[j + 2] = b /\ data[j + 3] = c

\* the collar marker looked for at index 0 only
is_collar_at_start(data) == BytesAt(data, 0, \h02, DEVICE_COLLAR, \h01)

\* the first loop: data[i] == 0x02 and data[i+1] == DEVICE_COLLAR and
\* data[i+2] == 0x01 for some i in range(min(len(data) - 3, 20))
is_collar(data) ==
    \E i \in 0..(Min(Len(data) - 3, 20) - 1) : BytesAt(data, i, \h02, DEVICE_COLLAR, \h01)

\* a sanity check that forgets the lower bounds
in_range_upper_only(lat_deg, lon_deg) ==
    FloatLeq(lat_deg, Float(90)) /\ FloatLeq(lon_deg, Float(180))

\* -90 <= lat_deg <= 90 and -180 <= lon_deg <= 180
in_range(lat_deg, lon_deg) ==
    /\ FloatLeq(Float(-90), lat_deg) /\ FloatLeq(lat_deg, Float(90))
    /\ FloatLeq(Float(-180), lon_deg) /\ FloatLeq(lon_deg, Float(180))

\* a longitude decoded without looking for the 0x10 before it
lon_marker_unchecked(data, lon_offset) == lon_offset >= Len(data)

\* lon_offset >= len(data) or data[lon_offset] != 0x10
lon_marker_missing(data, lon_offset) ==
    lon_offset >= Len(data) \/ data[lon_offset + 1] # \h10

\* a timestamp that is never looked for
timestamp_ignored(data, ts_offset) == FALSE

\* ts_offset < len(data) and data[ts_offset] == 0x18
has_timestamp(data, ts_offset) == ts_offset < Len(data) /\ data[ts_offset + 1] = \h18

\* the body of the second loop at a j where the marker 0A 0C 08 is: the loop
\* goes on (done FALSE) after a continue and ends (done TRUE) with a
\* DogPosition, or with the exception that a conversion to degrees raised
coordinate_block(data, j) ==
    LET lat        == decode_varint(data, j + 3)
        lat_signed == decode_sint32(lat.value)
        lon_offset == j + 3 + lat.consumed
        lon        == decode_varint(data, lon_offset + 1)
        lon_signed == decode_sint32(lon.value)
        lat_deg    == semicircles_to_degrees(lat_signed)
        lon_deg    == semicircles_to_degrees(lon_signed)
        ts_offset  == lon_offset + lon.consumed + 1
        timestamp  == IF has_timestamp(data, ts_offset)
                      THEN decode_varint(data, ts_offset + 1).value
                      ELSE <<>>
    IN  IF lon_marker_missing(data, lon_offset) THEN [done |-> FALSE, value |-> None]
        ELSE IF IsRaise(lat_deg) THEN [done |-> TRUE, value |-> lat_deg]
        ELSE IF IsRaise(lon_deg) THEN [done |-> TRUE, value |-> lon_deg]
        ELSE IF ~in_range(lat_deg, lon_deg) THEN [done |-> FALSE, value |-> None]
        ELSE [done |-> TRUE, value |-> DogPosition(lat_deg, lon_deg, timestamp)]

\* a DogPosition, None, or the exception that leaves the function
parse_ble_notification(data) ==
    LET Body(j, s) ==
            IF s.done THEN s
            ELSE IF BytesAt(data, j, \h0A, \h0C, \h08) THEN coordinate_block(data, j)
            ELSE s
    IN  IF Len(data) < 40 THEN None
        ELSE IF ~is_collar(data) THEN None
        ELSE ForRange(Body, 0, Len(data) - 16, [done |-> FALSE, value |-> None]).value

\* ---- one call of parse_ble_notification ----

\* the padding after the coordinate blocks is 0, 8, ... 8 * MaxPadSteps bytes
MaxPadSteps == 3

Zeros(n) == [k \in 1..n |-> 0]

COLLAR_MARKER == <<\h02, DEVICE_COLLAR, \h01>>

\* the start of a notification: the collar marker at index 0, at index 19 (the
\* last one the first loop looks at), at index 20, and no marker
NotificationHeads ==
    {COLLAR_MARKER \o Zeros(17), Zeros(19) \o COLLAR_MARKER,
     Zeros(20) \o COLLAR_MARKER, Zeros(20)}

\* the block of demo_mode: lat 43.74..., lon -116.01..., a timestamp
SAMPLE_BLOCK ==
    <<\h0A, \h0C, \h08, \h80, \hC0, \hD7, \hF1, \h03, \h10,
      \hFF, \hEB, \hF7, \hA7, \h0A, \h18, \hC3, \h87, \hC9, \h9C, \h04>>

\* coordinate blocks 0A 0C 08 [lat] 10 [lon] ..., in semicircles:
CoordinateBlocks ==
    {<<>>,
     SAMPLE_BLOCK,
     \* lat 1, lon -2, no timestamp
     <<\h0A, \h0C, \h08, \h02, \h10, \h03>>,
     \* lat 2^30 (90 degrees), lon -2^31 (-180 degrees), then 0x19
     <<\h0A, \h0C, \h08, \h80, \h80, \h80, \h80, \h08, \h10,
       \hFF, \hFF, \hFF, \hFF, \h0F, \h19>>,
     \* 0x11 where 0x10 is expected
     <<\h0A, \h0C, \h08, \h02, \h11, \h03>>,
     \* lat 2^30 + 1
     <<\h0A, \h0C, \h08, \h82, \h80, \h80, \h80, \h08, \h10, \h02>>,
     \* lat -(2^30 + 1)
     <<\h0A, \h0C, \h08, \h81, \h80, \h80, \h80, \h08, \h10, \h02>>,
     \* lon 2^31 + 1
     <<\h0A, \h0C, \h08, \h02, \h10, \h82, \h80, \h80, \h80, \h10>>,
     \* lon -(2^31 + 1), a timestamp of 5
     <<\h0A, \h0C, \h08, \h02, \h10, \h81, \h80, \h80, \h80, \h10, \h18, \h05>>,
     \* 16 bytes: lat 0 and lon 0 in six bytes each
     <<\h0A, \h0C, \h08, \h80, \h80, \h80, \h80, \h80, \h00, \h10,
       \h80, \h80, \h80, \h80, \h80, \h00>>,
     \* 16 bytes: lat 0 in six bytes, lon 1 in five, then 0x18
     <<\h0A, \h0C, \h08, \h80, \h80, \h80, \h80, \h80, \h00, \h10,
       \h82, \h80, \h80, \h80, \h00, \h18>>}

\* the lengths of a latitude varint of 0xFF bytes closed by 0x01: with 146 the
\* value still converts to a float, with 147 it does not
LongVarintLengths == {146, 147}

\* a block with a latitude of n + 1 bytes, longitude 0
LongVarintBlock(n) ==
    <<\h0A, \h0C, \h08>> \o [k \in 1..n |-> \hFF] \o <<\h01, \h10, \h00>>

\* notifications that end early: no bytes, one byte, 39 bytes, the collar
\* marker cut by the end of the first loop's range, the block marker cut by
\* the end of the data, a latitude and a longitude varint with no last byte
TruncatedNotifications ==
    {<<>>, <<\h02>>, COLLAR_MARKER \o Zeros(36),
     Zeros(38) \o <<\h02, DEVICE_COLLAR>>,
     COLLAR_MARKER \o Zeros(35) \o <<\h0A, \h0C>>,
     COLLAR_MARKER \o Zeros(21) \o <<\h0A, \h0C, \h08>> \o [k \in 1..13 |-> \h80],
     COLLAR_MARKER \o Zeros(21) \o <<\h0A, \h0C, \h08, \h02, \h10>> \o [k \in 1..11 |-> \h80],
     COLLAR_MARKER \o Zeros(21) \o <<\h0A, \h0C, \h08, \h02, \h10, \h03, \h18>>
        \o [k \in 1..9 |-> \hFF]}

Notifications ==
    {h \o b1 \o b2 \o Zeros(8 * p) :
        h \in NotificationHeads, b1 \in CoordinateBlocks, b2 \in CoordinateBlocks,
        p \in 0..MaxPadSteps}
    \cup {COLLAR_MARKER \o Zeros(17) \o LongVarintBlock(n) \o SAMPLE_BLOCK \o Zeros(16) :
            n \in LongVarintLengths}
    \cup TruncatedNotifications

InitParse ==
    /\ pc = "call"
    /\ args \in {[data |-> d] : d \in Notifications}
    /\ ret = Pending

ParseNotification ==
    /\ pc = "call"
    /\ ret' = parse_ble_notification(args.data)
    /\ pc' = "done"
    /\ UNCHANGED args

NextParse == ParseNotification

SpecParse == InitParse /\ [][NextParse]_vars


\* ---- what the claims say about a marker occurrence ----

\* the marker 0A 0C 08 is at index j of data
MarkerAt(data, j) == BytesAt(data, j, \h0A, \h0C, \h08)

MarkerOccurrences(data) == {j \in 0..(Len(data) - 3) : MarkerAt(data, j)}

\* the index after the latitude varint of the block at j
AfterLatitude(data, j) == j + 3 + decode_varint(data, j + 3).consumed

\* the latitude varint of the block at j is immediately followed by 0x10
SeparatorAt(data, j) ==
    AfterLatitude(data, j) < Len(data) /\ data[AfterLatitude(data, j) + 1] = \h10

LatitudeAt(data, j) == decode_sint32(decode_varint(data, j + 3).value)

LongitudeAt(data, j) == decode_sint32(decode_varint(data, AfterLatitude(data, j) + 1).value)

\* |sc| <= 2^k, on the bits of sc
MagnitudeWithin(sc, k) == Len(sc.mag) <= k \/ sc.mag = PyShl(<<1>>, k)

\* latitude within 90 degrees is 2^30 semicircles, longitude within 180 is 2^31
RangeValidAt(data, j) ==
    /\ MagnitudeWithin(LatitudeAt(data, j), 30)
    /\ MagnitudeWithin(LongitudeAt(data, j), 31)

ValidOccurrences(data) ==
    {j \in MarkerOccurrences(data) : SeparatorAt(data, j) /\ RangeValidAt(data, j)}

\* the Position of the block at j, without its timestamp
DegreesAt(data, j) ==
    [lat |-> semicircles_to_degrees(LatitudeAt(data, j)),
     lon |-> semicircles_to_degrees(LongitudeAt(data, j))]

SetMin(S) == CHOOSE x \in S : \A y \in S : x <= y

\* the second loop runs over data: 40 bytes or more, and the collar marker
ScanRuns(data) == Len(data) >= 40 /\ is_collar(data)

\* the valid occurrences among the indices the second loop visits
ValidScanned(data) == {j \in ValidOccurrences(data) : j <= Len(data) - 16}

\* C5: parse_ble_notification returns the Position decoded at the lowest-index
\* occurrence of 0A 0C 08 that is structurally valid (0x10 right after the
\* latitude varint) and range-valid; candidates that fail are skipped, and
\* nothing is returned only if no occurrence validates.  Stated for the
\* payloads the scan runs over and the occurrences it visits, which is less
\* than the claim's "for every payload".
C5_LowestValidOccurrence ==
    pc = "done" /\ ScanRuns(args.data) =>
        IF ValidScanned(args.data) = {} THEN ret = None
        ELSE /\ IsPosition(ret)
             /\ [lat |-> ret.lat, lon |-> ret.lon]
                    = DegreesAt(args.data, SetMin(ValidScanned(args.data)))

\* C6: every Position returned was decoded at an occurrence of 0A 0C 08 whose
\* latitude varint is immediately followed by 0x10, and has its latitude in
\* [-90, 90] and its longitude in [-180, 180]; a payload without 0A 0C 08
\* yields None, and no exception.
C6_PositionFromValidBlock ==
    pc = "done" =>
        /\ IsPosition(ret) =>
              /\ \E j \in MarkerOccurrences(args.data) :
                    /\ SeparatorAt(args.data, j)
                    /\ [lat |-> ret.lat, lon |-> ret.lon] = DegreesAt(args.data, j)
              /\ FloatLeq(Float(-90), ret.lat) /\ FloatLeq(ret.lat, Float(90))
              /\ FloatLeq(Float(-180), ret.lon) /\ FloatLeq(ret.lon, Float(180))
        /\ MarkerOccurrences(args.data) = {} => ret = None

\* a Position was returned from the second block, after a first block with a
\* latitude out of range was skipped, and its longitude is the bound -180
C6_Witness ==
    /\ pc = "done"
    /\ IsPosition(ret)
    /\ Cardinality(MarkerOccurrences(args.data)) = 2
    /\ Cardinality(ValidOccurrences(args.data)) = 1
    /\ ret.lon = Float(-180) /\ ret.lat = Float(90)


(***************************************************************************)
(* scripts/bridge.py: one call of decode_varint at offset 0                *)
(***************************************************************************)

\* the values encoded have up to MaxVarintBytes groups of 7 bits
MaxVarintBytes == 5

\* the 7-bit groups the values are built of: 0000000, 0000001, 1000000,
\* 1010101, 1111111
GroupValues == {0, 1, 64, 85, 127}

\* the number whose 7-bit groups, low to high, are gs
GroupsValue(gs) ==
    Normalize([k \in 1..(7 * Len(gs)) |-> BitAt(NatBits(gs[((k - 1) \div 7) + 1]), ((k - 1) % 7) + 1)])

VarintValues ==
    {GroupsValue(gs) : gs \in UNION {[1..n -> GroupValues] : n \in 1..MaxVarintBytes}}

\* the encoding of the claim: 7 bits per byte from the low end, bit 7 set on
\* every byte but the last
RECURSIVE EncodeVarint(_)
EncodeVarint(v) ==
    IF Len(v) <= 7 THEN <<BitsNat(v)>>
    ELSE <<BitsNat(SubSeq(v, 1, 7)) + 128>> \o EncodeVarint(SubSeq(v, 8, Len(v)))

InitVarint ==
    /\ pc = "call"
    /\ args \in {[v |-> v, data |-> EncodeVarint(v)] : v \in VarintValues}
    /\ ret = Pending

DecodeVarint ==
    /\ pc = "call"
    /\ ret' = decode_varint(args.data, 0)
    /\ pc' = "done"
    /\ UNCHANGED args

NextVarint == DecodeVarint

SpecVarint == InitVarint /\ [][NextVarint]_vars

\* C7: for 0 <= v < 2^35, decode_varint of the encoding of v at offset 0
\* returns (v, n), n the number of encoded bytes, between 1 and 5.
C7_VarintRoundTrip ==
    pc = "done" /\ Len(args.v) <= 35 =>
        /\ ret.value = args.v
        /\ ret.consumed = Len(args.data)
        /\ ret.consumed \in 1..5

\* 2^35 - 1 was decoded from five bytes
C7_Witness ==
    /\ pc = "done"
    /\ args.v = [k \in 1..35 |-> 1]
    /\ args.data = <<\hFF, \hFF, \hFF, \hFF, \h7F>>
    /\ ret = [value |-> args.v, consumed |-> 5]


(***************************************************************************)
(* scripts/bridge.py: one call of decode_sint32                            *)
(***************************************************************************)

\* the width of the signed values of the claim
SINT32_BITS == 32

\* magnitudes of 1 to n bits: 2^(n-1), 2^n - 1, and 1010...1
Magnitudes(n) ==
    UNION {{PyShl(<<1>>, m - 1), [k \in 1..m |-> 1], [k \in 1..m |-> k % 2] \o <<1>>} :
              m \in 1..n}

\* signed values from -2^31 to 2^31 - 1
SignedValues ==
    {[neg |-> FALSE, mag |-> <<>>], [neg |-> TRUE, mag |-> PyShl(<<1>>, SINT32_BITS - 1)]}
    \cup {[neg |-> s, mag |-> m] :
            s \in BOOLEAN,
            m \in {x \in Magnitudes(SINT32_BITS - 1) : Len(x) <= SINT32_BITS - 1}}

\* b - 1 for b > 0
Dec(b) ==
    Normalize([k \in 1..Len(b) |->
                  IF k < LowBit(b) THEN 1 ELSE IF k = LowBit(b) THEN 0 ELSE b[k]])

\* the two's complement pattern of v in SINT32_BITS bits, low bit first
TwosComplement(v) ==
    [k \in 1..SINT32_BITS |->
        IF v.neg THEN 1 - BitAt(Dec(v.mag), k) ELSE BitAt(v.mag, k)]

\* (v << 1) ^ (v >> 31) as an unsigned 32-bit value: the pattern shifted left
\* with the top bit dropped, xor the sign bit in every position
EncodeZigZag(v) ==
    LET w == TwosComplement(v)
    IN  Normalize([k \in 1..SINT32_BITS |->
                      ((IF k = 1 THEN 0 ELSE w[k - 1]) + w[SINT32_BITS]) % 2])

InitZigZag ==
    /\ pc = "call"
    /\ args \in {[v |-> v, varint |-> EncodeZigZag(v)] : v \in SignedValues}
    /\ ret = Pending

DecodeSint32 ==
    /\ pc = "call"
    /\ ret' = decode_sint32(args.varint)
    /\ pc' = "done"
    /\ UNCHANGED args

NextZigZag == DecodeSint32

SpecZigZag == InitZigZag /\ [][NextZigZag]_vars

\* C8: for every signed 32-bit v, decode_sint32 of the zig-zag encoding
\* (v << 1) ^ (v >> 31) of v returns v.
C8_ZigZagRoundTrip == pc = "done" => ret = args.v

\* -2^31 came back from its encoding 2^32 - 1
C8_Witness ==
    /\ pc = "done"
    /\ args.varint = [k \in 1..32 |-> 1]
    /\ ret = [neg |-> TRUE, mag |-> PyShl(<<1>>, 31)]


(***************************************************************************)
(* tools/btsnoop_compare.py: analyze_notifications_in_window               *)
(***************************************************************************)

\* key = f"{cmd[0]:02X}_{cmd[1]:02X}"
cmd_key(cmd) == Format02X(cmd[1]) \o "_" \o Format02X(cmd[2])

\* d.get(key, 0) + 1 stored under key
dict_count(d, key) ==
    IF key \in DOMAIN d THEN [d EXCEPT ![key] = @ + 1] ELSE d @@ (key :> 1)

\* d[key] = value whether or not key is in d
dict_last(d, key, value) ==
    IF key \in DOMAIN d THEN [d EXCEPT ![key] = value] ELSE d @@ (key :> value)

\* d[key] = value unless key is in d
dict_first(d, key, value) ==
    IF key \in DOMAIN d THEN d ELSE d @@ (key :> value)

\* the empty dict {}
EmptyDict == [k \in {} |-> 0]

\* notifs: a sequence of [ts_us, data], t0: int, window_sec: a float.  The
\* loop ends (stop) at the first packet whose offset is beyond the window.
analyze_notifications_in_window(notifs, t0, window_sec) ==
    LET Body(i, s) ==
            IF s.stop THEN s
            ELSE LET pkt    == notifs[i]
                     offset == TrueDivSeconds(pkt.ts_us, t0)
                     r      == extract_command(pkt.data)
                 IN  IF FloatLess(window_sec, offset) THEN [s EXCEPT !.stop = TRUE]
                     ELSE IF r.is_cont
                     THEN [s EXCEPT !.total = @ + 1, !.frag_data_count = @ + 1]
                     ELSE IF r.cmd # NoCmd
                     THEN [s EXCEPT !.total = @ + 1,
                                    !.cmd_counts = dict_count(@, cmd_key(r.cmd)),
                                    !.cmd_first_seen = dict_first(@, cmd_key(r.cmd), offset)]
                     ELSE [s EXCEPT !.total = @ + 1, !.data_count = @ + 1]
        end == ForRange(Body, 1, Len(notifs),
                        [cmd_counts |-> EmptyDict, cmd_first_seen |-> EmptyDict, total |-> 0,
                         frag_data_count |-> 0, data_count |-> 0, stop |-> FALSE])
    IN  [cmd_counts |-> end.cmd_counts, cmd_first_seen |-> end.cmd_first_seen,
         total |-> end.total, frag_data_count |-> end.frag_data_count,
         data_count |-> end.data_count]

\* ---- one call of analyze_notifications_in_window ----

\* the longest list of notifications
MaxNotifs == 3

\* the session's first timestamp
SessionStarts == {0, 1}

\* timestamps at, just before and just after 60 s from the session starts
WindowTs == {1, 60000000, 60000001, 60000002}

\* the call sites pass 60.0
WindowSeconds == {60}

\* a command start 02_11, a continuation fragment
TimedPayloads == {<<\h00, \h01, \h00, \h02, \h11>>, <<\h80, \h02, \h01, \h02, \h03>>}

\* a command start 02_11 with bit 7 set, a command start FF_0A, plain data, a
\* header alone, one byte
OtherPayloads ==
    {<<\h80, \h01, \h00, \h02, \h11>>, <<\h00, \h02, \h00, \hFF, \h0A>>,
     <<\h00, \h03, \h01, \h02, \h03>>, <<\h00, \h04>>, <<\h00>>}

NotifPackets ==
    {[ts_us |-> t, data |-> p] : t \in WindowTs, p \in TimedPayloads}
    \cup {[ts_us |-> 1, data |-> p] : p \in OtherPayloads}

NotifLists == SeqsUpTo(NotifPackets, MaxNotifs)

InitHistogram ==
    /\ pc = "call"
    /\ args \in {[notifs |-> n, t0 |-> t, window_sec |-> w] :
                    n \in NotifLists, t \in SessionStarts, w \in WindowSeconds}
    /\ ret = Pending

AnalyzeNotifications ==
    /\ pc = "call"
    /\ ret' = analyze_notifications_in_window(args.notifs, args.t0, Float(args.window_sec))
    /\ pc' = "done"
    /\ UNCHANGED args

NextHistogram == AnalyzeNotifications

SpecHistogram == InitHistogram /\ [][NextHistogram]_vars


\* ---- what the claim says the histogram holds ----

\* packet i of the session is within the window: its offset from the session
\* start, in microseconds, is at most window_sec seconds
InWindow(i) == args.notifs[i].ts_us - args.t0 <= args.window_sec * 1000000

Classified(i) == extract_command(args.notifs[i].data)

\* the in-window command starts, continuation fragments, and packets with no key
WindowStarts == {i \in 1..Len(args.notifs) : InWindow(i) /\ Classified(i).cmd # NoCmd}

WindowContinuations == {i \in 1..Len(args.notifs) : InWindow(i) /\ Classified(i).is_cont}

WindowPlain ==
    {i \in 1..Len(args.notifs) :
        InWindow(i) /\ ~Classified(i).is_cont /\ Classified(i).cmd = NoCmd}

KeyOf(i) == cmd_key(Classified(i).cmd)

\* C9: the histogram counts, for each command key, exactly the packets of the
\* session whose offset from the session start is <= windowSeconds and that
\* are command starts with that key; continuation fragments in the window are
\* counted in the continuation counter, packets with no key in the window as
\* non-command data.
C9_HistogramCountsWindow ==
    pc = "done" =>
        /\ DOMAIN ret.cmd_counts = {KeyOf(i) : i \in WindowStarts}
        /\ \A key \in DOMAIN ret.cmd_counts :
              ret.cmd_counts[key] = Cardinality({i \in WindowStarts : KeyOf(i) = key})
        /\ ret.frag_data_count = Cardinality(WindowContinuations)
        /\ ret.data_count = Cardinality(WindowPlain)


(***************************************************************************)
(* tools/btsnoop_compare.py: find_first_cmd_notification                   *)
(***************************************************************************)

\* a match against the first target only
cmd_is_first_target(cmd, target_cmds) == Len(target_cmds) > 0 /\ target_cmds[1] = cmd

\* cmd in target_cmds, target_cmds a list of (cat, id) tuples
cmd_in(cmd, target_cmds) == \E k \in 1..Len(target_cmds) : target_cmds[k] = cmd

\* return offset, pkt, label, cmd
FirstResult(offset, pkt, label, cmd) ==
    [offset |-> offset, pkt |-> pkt, label |-> label, cmd |-> cmd]

\* notifs: a sequence of [ts_us, data]; the loop returns at the first match
find_first_cmd_notification(notifs, t0, target_cmds) ==
    LET Body(i, s) ==
            IF s.done THEN s
            ELSE LET pkt == notifs[i]
                     r   == extract_command(pkt.data)
                 IN  IF cmd_in(r.cmd, target_cmds)
                     THEN [done  |-> TRUE,
                           value |-> FirstResult(TrueDivSeconds(pkt.ts_us, t0), pkt,
                                                 r.label, r.cmd)]
                     ELSE s
    IN  ForRange(Body, 1, Len(notifs),
                 [done |-> FALSE, value |-> FirstResult(None, None, None, None)]).value

\* ---- one call of find_first_cmd_notification ----

\* the target lists of the call sites, and one with a key that has no label
TargetLists ==
    {<< <<\h02, \h11>> >>, << <<\h02, \h3C>>, <<\h02, \h7A>> >>,
     << <<\h02, \h29>>, <<\hFF, \h0A>> >>}

FirstTs == {1, 60000001}

\* command starts 02_11 (also with bit 7 set), 02_7A and FF_0A, a
\* continuation fragment, one byte
FirstPayloads ==
    {<<\h00, \h01, \h00, \h02, \h11>>, <<\h80, \h01, \h00, \h02, \h11>>,
     <<\h00, \h02, \h00, \h02, \h7A>>, <<\h00, \h02, \h00, \hFF, \h0A>>,
     <<\h80, \h02, \h01, \h02, \h03>>, <<\h00>>}

FirstPackets == {[ts_us |-> t, data |-> p] : t \in FirstTs, p \in FirstPayloads}

InitFirst ==
    /\ pc = "call"
    /\ args \in {[notifs |-> n, t0 |-> t, target_cmds |-> c] :
                    n \in SeqsUpTo(FirstPackets, MaxNotifs), t \in SessionStarts,
                    c \in TargetLists}
    /\ ret = Pending

FindFirst ==
    /\ pc = "call"
    /\ ret' = find_first_cmd_notification(args.notifs, args.t0, args.target_cmds)
    /\ pc' = "done"
    /\ UNCHANGED args

NextFirst == FindFirst

SpecFirst == InitFirst /\ [][NextFirst]_vars

\* the packets of the session whose command key is one of the targets
TargetMatches ==
    {i \in 1..Len(args.notifs) :
        /\ extract_command(args.notifs[i].data).cmd # NoCmd
        /\ extract_command(args.notifs[i].data).cmd
              \in {args.target_cmds[k] : k \in 1..Len(args.target_cmds)}}

\* C10: find_first_cmd_notification returns the lowest-index packet of the
\* session whose command key is among the targets, with its offset from the
\* session start and its label; it returns nothing iff no packet has a key
\* among the targets.
C10_FirstOccurrence ==
    pc = "done" =>
        IF TargetMatches = {} THEN ret = FirstResult(None, None, None, None)
        ELSE LET i == SetMin(TargetMatches)
             IN  /\ ret.pkt = args.notifs[i]
                 /\ ret.offset = TrueDivSeconds(args.notifs[i].ts_us, args.t0)
                 /\ ret.label = extract_command(args.notifs[i].data).label
                 /\ ret.cmd = extract_command(args.notifs[i].data).cmd

\* the third packet is returned, matching the second target, after a packet
\* with no key and a packet with another key; its offset is 60.0
C10_Witness ==
    /\ pc = "done"
    /\ Len(args.notifs) = 3
    /\ TargetMatches = {3}
    /\ args.notifs[1].data = <<\h00>>
    /\ args.notifs[2].data = <<\h00, \h01, \h00, \h02, \h11>>
    /\ ret.pkt = args.notifs[3]
    /\ ret.cmd = <<\h02, \h7A>>
    /\ ret.label = CMD_LABELS[<<\h02, \h7A>>]
    /\ ret.offset = Float(60)


(***************************************************************************)
(* tools/btsnoop_compare.py: main, DIFF SUMMARY                            *)
(***************************************************************************)

\* set(d.keys())
dict_keys(d) == DOMAIN d

\* d.get(key, default)
dict_get(d, key, default) == IF key \in DOMAIN d THEN d[key] ELSE default

\* the keys of the working session taken for those of the failing one
only_failing_as_working(w_keys, f_keys) == w_keys \ f_keys

\* only_working = w_keys - f_keys
only_working_keys(w_keys, f_keys) == w_keys \ f_keys

\* only_failing = f_keys - w_keys
only_failing_keys(w_keys, f_keys) == f_keys \ w_keys

\* both = w_keys & f_keys
both_keys(w_keys, f_keys) == w_keys \cap f_keys

\* the three key sets, and for each key of both the (wc, fc) of its row
diff_summary(w_cmd_counts, f_cmd_counts) ==
    LET w_keys == dict_keys(w_cmd_counts)
        f_keys == dict_keys(f_cmd_counts)
        both   == both_keys(w_keys, f_keys)
    IN  [only_working |-> only_working_keys(w_keys, f_keys),
         only_failing |-> only_failing_keys(w_keys, f_keys),
         both         |-> both,
         rows         |-> [key \in both |->
                              <<dict_get(w_cmd_counts, key, 0),
                                dict_get(f_cmd_counts, key, 0)>>]]

\* ---- one run of the diff summary ----

\* keys as analyze_notifications_in_window writes them
DiffKeys == {"02_11", "02_3C", "FF_0A"}

\* the counts of a key
DiffCounts == {1, 2, 3, 5}

\* the cmd_counts dicts over DiffKeys
Histograms == UNION {[ks -> DiffCounts] : ks \in SUBSET DiffKeys}

InitDiff ==
    /\ pc = "call"
    /\ args \in {[w_cmd_counts |-> w, f_cmd_counts |-> f] :
                    w \in Histograms, f \in Histograms}
    /\ ret = Pending

DiffSummary ==
    /\ pc = "call"
    /\ ret' = diff_summary(args.w_cmd_counts, args.f_cmd_counts)
    /\ pc' = "done"
    /\ UNCHANGED args

NextDiff == DiffSummary

SpecDiff == InitDiff /\ [][NextDiff]_vars

\* C11: diff(A, B) yields onlyInA = keys(A) \ keys(B), onlyInB = keys(B) \
\* keys(A), both = keys(A) /\ keys(B) with each shared key paired with (count
\* in A, count in B); the three sets are pairwise disjoint and their union is
\* keys(A) \/ keys(B).
C11_DiffPartition ==
    pc = "done" =>
        LET A == args.w_cmd_counts
            B == args.f_cmd_counts
        IN  /\ ret.only_working = {k \in DOMAIN A : k \notin DOMAIN B}
            /\ ret.only_failing = {k \in DOMAIN B : k \notin DOMAIN A}
            /\ ret.both = {k \in DOMAIN A : k \in DOMAIN B}
            /\ DOMAIN ret.rows = ret.both
            /\ \A k \in ret.both : ret.rows[k] = <<A[k], B[k]>>
            /\ ret.only_working \cap ret.only_failing = {}
            /\ ret.only_working \cap ret.both = {}
            /\ ret.only_failing \cap ret.both = {}
            /\ ret.only_working \cup ret.only_failing \cup ret.both
                  = (DOMAIN A) \cup (DOMAIN B)

\* {A:3, B:1} against {B:2, C:5} gave onlyInA {A}, onlyInB {C}, both {B: (1, 2)}
C11_Witness ==
    /\ pc = "done"
    /\ args.w_cmd_counts = ("02_11" :> 3) @@ ("02_3C" :> 1)
    /\ args.f_cmd_counts = ("02_3C" :> 2) @@ ("FF_0A" :> 5)
    /\ ret.only_working = {"02_11"}
    /\ ret.only_failing = {"FF_0A"}
    /\ ret.rows = ("02_3C" :> <<1, 2>>)


(***************************************************************************)
(* tools/btsnoop_compare.py: parse_btsnoop                                 *)
(***************************************************************************)

\* a < b for two Python ints >= 0
BitsLess(a, b) ==
    \/ Len(a) < Len(b)
    \/ /\ Len(a) = Len(b)
       /\ \E p \in 1..Len(a) :
            /\ a[p] = 0 /\ b[p] = 1
            /\ \A q \in (p + 1)..Len(a) : a[q] = b[q]

\* struct.unpack('>I', ...) and struct.unpack('>Q', ...): the big-endian
\* unsigned number of 4 or 8 bytes, a Python int
unpack_be(bytes) ==
    Normalize([k \in 1..(8 * Len(bytes)) |->
                  BitAt(NatBits(bytes[Len(bytes) - ((k - 1) \div 8)]), ((k - 1) % 8) + 1)])

\* the two bytes read high byte first
unpack_be16(bytes) == (256 * bytes[1]) + bytes[2]

\* struct.unpack('<H', ...)
unpack_le16(bytes) == bytes[1] + (256 * bytes[2])

\* f.read(n) with the file position at pos: up to n bytes, fewer at the end
file_read(file, pos, n) == SubSeq(file, pos + 1, Min(pos + n, Len(file)))

\* data[a:b] of a bytes object with b <= len(data)
slice(data, a, b) == SubSeq(data, a + 1, b)

\* the microseconds from BTSNOOP_EPOCH (2000-01-01) to the first instant after
\* datetime.max (9999-12-31 23:59:59.999999): 2921940 days
\* times 86400 * 10^6, which is 0x0380E70B913B8000
DATETIME_RANGE_US == unpack_be(<<\h03, \h80, \hE7, \h0B, \h91, \h3B, \h80, \h00>>)

\* BTSNOOP_EPOCH + datetime.timedelta(microseconds=ts_us): a datetime, or
\* OverflowError (date value out of range)
to_datetime(ts_us) ==
    IF BitsLess(ts_us, DATETIME_RANGE_US)
    THEN [epoch |-> "2000-01-01T00:00:00+00:00", microseconds |-> ts_us]
    ELSE Raised("OverflowError")

\* only an empty header refused
header_empty(header) == Len(header) = 0

\* len(header) < 16
header_too_short(header) == Len(header) < 16

\* not (len(data) < 12)
frame_has_handle(data) == Len(data) >= 12

\* the dict appended to packets
att_packet(type, ts_dt, ts_us, att_opcode, data, is_received) ==
    [type |-> type, timestamp |-> ts_dt, ts_us |-> ts_us,
     handle |-> unpack_le16(slice(data, 10, 12)), opcode |-> att_opcode,
     data |-> slice(data, 12, Len(data)), is_received |-> is_received,
     raw_size |-> Len(slice(data, 12, Len(data)))]

\* the body of the while loop with the file position at s.pos: break sets
\* stop, continue and append leave the position after the record, an
\* exception is kept in raised
read_record(file, s) ==
    LET rec_hdr == file_read(file, s.pos, 24)
        incl_len == unpack_be(slice(rec_hdr, 4, 8))
        flags    == unpack_be(slice(rec_hdr, 8, 12))
        ts_us    == unpack_be(slice(rec_hdr, 16, 24))
        short    == BitsLess(NatBits(Len(file) - (s.pos + 24)), incl_len)
        data     == file_read(file, s.pos + 24, BitsNat(incl_len))
        ts_dt    == to_datetime(ts_us)
        is_received == BitAt(flags, 1) = 1
        att_opcode  == data[10]
        next     == [s EXCEPT !.pos = s.pos + 24 + Len(data)]
    IN  IF Len(rec_hdr) < 24 THEN [s EXCEPT !.stop = TRUE]
        ELSE IF short THEN [s EXCEPT !.stop = TRUE]
        ELSE IF IsRaise(ts_dt) THEN [s EXCEPT !.stop = TRUE, !.raised = ts_dt]
        ELSE IF Len(data) < 10 THEN next
        ELSE IF data[1] # \h02 THEN next
        ELSE IF unpack_le16(slice(data, 7, 9)) # 4 THEN next
        ELSE IF att_opcode \in {\h12, \h52}
        THEN IF ~frame_has_handle(data) THEN next
             ELSE [next EXCEPT !.packets =
                      Append(@, att_packet("write", ts_dt, ts_us, att_opcode, data, is_received))]
        ELSE IF att_opcode = \h1B
        THEN IF ~frame_has_handle(data) THEN next
             ELSE [next EXCEPT !.packets =
                      Append(@, att_packet("notification", ts_dt, ts_us, att_opcode, data,
                                           is_received))]
        ELSE next

\* file: the bytes of the capture.  The result is the list packets with what
\* was printed, or the exception that leaves the function.
parse_btsnoop(file) ==
    LET header == file_read(file, 0, 16)
        Body(n, s) == IF s.stop THEN s ELSE read_record(file, s)
        end == ForRange(Body, 1, (Len(file) \div 24) + 1,
                        [pos |-> 16, packets |-> <<>>, stop |-> FALSE, raised |-> None])
    IN  IF header_too_short(header)
        THEN [packets |-> <<>>, printed |-> <<"ERROR: File too short for header">>]
        ELSE IF IsRaise(end.raised) THEN end.raised
        ELSE [packets |-> end.packets, printed |-> <<>>]


\* ---- one call of parse_btsnoop ----

\* the most complete records of a capture
MaxRecords == 2

\* "btsnoop\0", version 1, datalink type 1002
FILE_HEADER ==
    <<\h62, \h74, \h73, \h6E, \h6F, \h6F, \h70, \h00,
      \h00, \h00, \h00, \h01, \h00, \h00, \h03, \hEA>>

\* a length under 65536 as four big-endian bytes
U32(n) == <<0, 0, n \div 256, n % 256>>

\* a frame: HCI type, six bytes of HCI and L2CAP header, the channel id, the
\* ATT opcode, and what follows it
Frame(type, cid, att_opcode, rest) ==
    <<type, \h40, \h20, \h07, \h00, \h03, \h00>> \o cid \o <<att_opcode>> \o rest

ATT_CID == <<\h04, \h00>>

\* what follows the opcode: handle 0x1234 alone, and handle 0x0025 with a value
HandleOnly == <<\h34, \h12>>
HandleValue == <<\h25, \h00, \h00, \h01, \h00, \h02, \h11>>

\* frames that pass every test of the loop
AttFrames ==
    {Frame(\h02, ATT_CID, op, rest) : op \in {\h12, \h52, \h1B}, rest \in {HandleOnly, HandleValue}}

\* frames that fail one: no bytes, 9 bytes, 10 and 11 bytes with a known
\* opcode, another HCI type, other channels, other opcodes
OtherFrames ==
    {<<>>,
     SubSeq(Frame(\h02, ATT_CID, \h1B, <<>>), 1, 9),
     Frame(\h02, ATT_CID, \h1B, <<>>),
     Frame(\h02, ATT_CID, \h12, <<\h25>>),
     Frame(\h04, ATT_CID, \h1B, HandleValue),
     Frame(\h02, <<\h05, \h00>>, \h1B, HandleValue),
     Frame(\h02, <<\h00, \h04>>, \h12, HandleValue),
     Frame(\h02, ATT_CID, \h1D, HandleValue),
     Frame(\h02, ATT_CID, \h0B, HandleOnly)}

\* timestamps: 1 and 60000001 microseconds, the last one that is a datetime
\* (9999-12-31 23:59:59.999999), the one after it, and 2^64 - 1
EarlyTimestamps ==
    {<<0, 0, 0, 0, 0, 0, 0, 1>>, <<0, 0, 0, 0, \h03, \h93, \h87, \h01>>}

LateTimestamps ==
    {<<\h03, \h80, \hE7, \h0B, \h91, \h3B, \h7F, \hFF>>,
     <<\h03, \h80, \hE7, \h0B, \h91, \h3B, \h80, \h00>>,
     <<\hFF, \hFF, \hFF, \hFF, \hFF, \hFF, \hFF, \hFF>>}

\* a record as the capture describes it
Rec(frame, flags, ts) == [frame |-> frame, flags |-> flags, ts |-> ts]

CaptureRecords ==
    {Rec(f, g, t) : f \in AttFrames, g \in {0}, t \in EarlyTimestamps}
    \cup {Rec(f, 0, <<0, 0, 0, 0, 0, 0, 0, 1>>) : f \in OtherFrames}
    \cup {Rec(Frame(\h02, ATT_CID, \h1B, HandleValue), 1, t) : t \in LateTimestamps}
    \cup {Rec(<<>>, 0, t) : t \in LateTimestamps}

\* the 24-byte record header: orig_len, incl_len, flags, drops, timestamp
RecordHeader(orig_len, incl_len, flags, ts) ==
    orig_len \o incl_len \o <<0, 0, 0, flags>> \o <<0, 0, 0, 0>> \o ts

RecordBytes(r) ==
    RecordHeader(U32(Len(r.frame)), U32(Len(r.frame)), r.flags, r.ts) \o r.frame

\* what follows the complete records: nothing; 23 bytes of a record header; a
\* header that declares 12 bytes before 11; a header that declares 50 bytes
\* before a whole record of 41; a header that declares 2^32 - 1 bytes
CaptureTails ==
    LET one == <<0, 0, 0, 0, 0, 0, 0, 1>>
        whole == Rec(Frame(\h02, ATT_CID, \h1B, HandleValue), 0, one)
    IN  {<<>>,
         SubSeq(RecordBytes(whole), 1, 23),
         RecordHeader(U32(12), U32(12), 0, one) \o SubSeq(whole.frame, 1, 11),
         RecordHeader(U32(50), U32(50), 0, one) \o RecordBytes(whole),
         RecordHeader(U32(12), <<\hFF, \hFF, \hFF, \hFF>>, 0, one) \o whole.frame}

\* captures with a whole file header, and files of 0, 15 and 8 bytes
Captures ==
    {[header |-> FILE_HEADER, records |-> rs, tail |-> t] :
        rs \in SeqsUpTo(CaptureRecords, MaxRecords), t \in CaptureTails}
    \cup {[header |-> SubSeq(FILE_HEADER, 1, n), records |-> <<>>, tail |-> <<>>] :
            n \in {0, 8, 15}}

RECURSIVE Concat(_)
Concat(ss) == IF ss = <<>> THEN <<>> ELSE Head(ss) \o Concat(Tail(ss))

\* the bytes of the file
CaptureBytes(c) ==
    c.header \o Concat([k \in DOMAIN c.records |-> RecordBytes(c.records[k])]) \o c.tail

InitCapture ==
    /\ pc = "call"
    /\ args \in Captures
    /\ ret = Pending

ParseBtsnoop ==
    /\ pc = "call"
    /\ ret' = parse_btsnoop(CaptureBytes(args))
    /\ pc' = "done"
    /\ UNCHANGED args

NextCapture == ParseBtsnoop

SpecCapture == InitCapture /\ [][NextCapture]_vars


\* ---- what the claims say about a capture ----

\* the frame is at least 12 bytes, starts with 0x02, has 0x0004 little-endian
\* at bytes 7..8 and one of the three opcodes at byte 9 (bytes counted from 0)
FrameQualifies(frame) ==
    /\ Len(frame) >= 12
    /\ frame[1] = \h02
    /\ frame[8] = \h04 /\ frame[9] = \h00
    /\ frame[10] \in {\h12, \h52, \h1B}

\* the complete records of the capture whose frame qualifies, in capture order
QualifyingRecords ==
    LET Test(r) == FrameQualifies(r.frame) IN SelectSeq(args.records, Test)

WholeHeader == Len(args.header) = 16

\* packet p was made from the frame and the timestamp of record r
PacketOf(p, r) ==
    /\ p.type = (IF r.frame[10] = \h1B THEN "notification" ELSE "write")
    /\ p.handle = r.frame[11] + (256 * r.frame[12])
    /\ p.data = SubSeq(r.frame, 13, Len(r.frame))
    /\ Len(p.data) = Len(r.frame) - 12
    /\ p.ts_us = unpack_be(r.ts)

\* C12: a link frame produces an AttPacket iff it is at least 12 bytes long,
\* its first byte is 0x02, the little-endian 16-bit value at bytes 7..8 is
\* 0x0004 and the opcode at byte 9 is 0x12, 0x52 or 0x1B; every other frame is
\* dropped without raising and without stopping the later records.
C12_PacketIffFrameQualifies ==
    pc = "done" /\ WholeHeader =>
        /\ ~IsRaise(ret)
        /\ Len(ret.packets) = Len(QualifyingRecords)
        /\ \A k \in 1..Len(QualifyingRecords) :
              ret.packets[k].opcode = QualifyingRecords[k].frame[10]

\* C13: for every frame that produces an AttPacket, the kind is write for
\* 0x12 and 0x52 and notification for 0x1B, the handle is the little-endian
\* value of bytes 10..11, the payload is the frame from index 12 on (captured
\* length minus 12 bytes), and the timestamp is the record's.
C13_PacketFields ==
    pc = "done" /\ WholeHeader /\ ~IsRaise(ret) =>
        /\ Len(ret.packets) = Len(QualifyingRecords)
        /\ \A k \in 1..Len(ret.packets) : PacketOf(ret.packets[k], QualifyingRecords[k])

\* a write command with handle 0x1234 and no payload, then a notification
\* with handle 0x0025 and five bytes, at 1 and 60000001 microseconds
C13_Witness ==
    /\ pc = "done"
    /\ ~IsRaise(ret)
    /\ Len(ret.packets) = 2
    /\ ret.packets[1].type = "write" /\ ret.packets[1].opcode = \h52
    /\ ret.packets[1].handle = 4660 /\ ret.packets[1].data = <<>>
    /\ ret.packets[1].ts_us = NatBits(1)
    /\ ret.packets[2].type = "notification" /\ ret.packets[2].handle = 37
    /\ ret.packets[2].data = <<\h00, \h01, \h00, \h02, \h11>>
    /\ ret.packets[2].ts_us = NatBits(60000001)

\* C14: a capture whose file header is shorter than 16 bytes fails with the
\* header error and reads no frame: no packet is emitted.
C14_ShortHeader ==
    pc = "done" /\ Len(CaptureBytes(args)) < 16 =>
        /\ ~IsRaise(ret)
        /\ ret.packets = <<>>
        /\ ret.printed = <<"ERROR: File too short for header">>

\* a file of 15 bytes was refused
C14_Witness ==
    /\ pc = "done"
    /\ Len(CaptureBytes(args)) = 15
    /\ ret = [packets |-> <<>>, printed |-> <<"ERROR: File too short for header">>]

\* C15: when a record is incomplete (under 24 header bytes, or fewer data
\* bytes than its captured length), reading stops there: the result is
\* exactly the packets of the complete records before it, in capture order,
\* and nothing comes from the incomplete record or the bytes after it.
C15_TruncatedRecordEndsRead ==
    pc = "done" /\ WholeHeader /\ args.tail # <<>> =>
        /\ ~IsRaise(ret)
        /\ Len(ret.packets) = Len(QualifyingRecords)
        /\ \A k \in 1..Len(QualifyingRecords) :
              /\ ret.packets[k].data = SubSeq(QualifyingRecords[k].frame, 13,
                                              Len(QualifyingRecords[k].frame))
              /\ ret.packets[k].ts_us = unpack_be(QualifyingRecords[k].ts)


\* ---- the sample block of demo_mode in a collar-marked packet (SpecParse) ----

\* the 20 bytes of SAMPLE_BLOCK are at index j of data
SampleAt(data, j) == j + 20 <= Len(data) /\ SubSeq(data, j + 1, j + 20) = SAMPLE_BLOCK

\* a packet of at least 40 bytes with the collar marker starting within its
\* first 20 bytes and the sample block after it, at index j
SamplePacket(data, j) ==
    /\ Len(data) >= 40
    /\ SampleAt(data, j)
    /\ \E i \in 0..19 : BytesAt(data, i, \h02, \h35, \h01) /\ i + 3 <= j

\* a Position within the bounds and with a timestamp other than 0
BoundedWithTimestamp(r) ==
    /\ IsPosition(r)
    /\ FloatLeq(Float(-90), r.lat) /\ FloatLeq(r.lat, Float(90))
    /\ FloatLeq(Float(-180), r.lon) /\ FloatLeq(r.lon, Float(180))
    /\ r.timestamp # <<>>

\* C16 as stated: for a packet of at least 40 bytes with the collar marker in
\* its first 20 bytes and the sample block later, parse_ble_notification
\* returns a Position with latitude in [-90, 90], longitude in [-180, 180]
\* and a nonzero timestamp.
C16_SampleAnywhere ==
    pc = "done" /\ (\E j \in 0..Len(args.data) : SamplePacket(args.data, j)) =>
        BoundedWithTimestamp(ret)

\* C16: the same, for a packet in which the sample block is the first
\* occurrence of 0A 0C 08.
C16_SampleFirst ==
    pc = "done" /\ MarkerOccurrences(args.data) # {}
                /\ SamplePacket(args.data, SetMin(MarkerOccurrences(args.data))) =>
        BoundedWithTimestamp(ret)

\* the sample block right after a collar marker at index 19 gave the
\* timestamp 1133659075
C16_Witness ==
    /\ pc = "done"
    /\ BytesAt(args.data, 19, \h02, \h35, \h01)
    /\ SamplePacket(args.data, 22)
    /\ SetMin(MarkerOccurrences(args.data)) = 22
    /\ BoundedWithTimestamp(ret)
    /\ ret.timestamp = NatBits(1133659075)
    /\ ~ret.lat.neg /\ ret.lon.neg


\* ---- continuation and plain data, fragmented starts (SpecCommand) ----

\* two upper-case hex digits of a byte, read off the digit table
TwoHex(b) == HexDigits[(b \div 16) + 1] \o HexDigits[(b % 16) + 1]

\* the bytes after the 2-byte header start with 0x00 and number at least 3
StartsCommand(data) == Len(data) >= 5 /\ data[3] = 0

\* C17: extract_command produces a command key iff the bytes after the 2-byte
\* header start with 0x00 and number at least 3; every other payload of 3 or
\* more bytes is continuation data exactly when bit 7 of the first header
\* byte is set and plain data otherwise, and carries the first byte after the
\* header.
C17_KeyIffCommandStart ==
    pc = "done" =>
        /\ (ret.cmd # NoCmd) <=> StartsCommand(args.data)
        /\ Len(args.data) >= 3 /\ ~StartsCommand(args.data) =>
              /\ ret.is_cont = (args.data[1] >= 128)
              /\ args.data[1] >= 128 =>
                    ret.label = "FRAG_DATA[0x" \o TwoHex(args.data[3]) \o "]"
              /\ args.data[1] < 128 =>
                    ret.label = "DATA[0x" \o TwoHex(args.data[3]) \o "]"

\* a remainder 00 02 of two bytes under a header with bit 7 set is
\* continuation data
C17_Witness ==
    /\ pc = "done"
    /\ args.data = <<\h80, \hFF, \h00, \h02>>
    /\ ret.cmd = NoCmd
    /\ ret.is_cont = TRUE
    /\ ret.label = "FRAG_DATA[0x00]"

\* C18: with bit 7 of the first header byte set and [0x00, category, id, ...]
\* after the header, extract_command returns the key (category, id) with the
\* continuation indicator false, and the normal label (table entry or
\* CMD_<cat>_<id>) behind the prefix FRAG>.
C18_FragmentedStart ==
    pc = "done" /\ StartsCommand(args.data) /\ args.data[1] >= 128 =>
        LET cat == args.data[4]
            id  == args.data[5]
        IN  /\ ret.cmd = <<cat, id>>
            /\ ret.is_cont = FALSE
            /\ ret.label = "FRAG>" \o (IF <<cat, id>> \in DOMAIN CMD_LABELS
                                       THEN CMD_LABELS[<<cat, id>>]
                                       ELSE "CMD_" \o TwoHex(cat) \o "_" \o TwoHex(id))

\* a fragmented start of a key outside the table
C18_Witness ==
    /\ pc = "done"
    /\ args.data = <<\hFF, \h00, \h00, \h03, \h0A>>
    /\ ret.label = "FRAG>CMD_03_0A"
    /\ ret.is_cont = FALSE
    /\ ret.cmd = <<3, 10>>


(***************************************************************************)
(* scripts/bridge.py: one call of decode_varint at any offset              *)
(***************************************************************************)

\* the longest buffer
MaxBufferLen == 3

\* bytes with bit 7 clear and set
BufferBytes == {\h00, \h01, \h7F, \h80, \hFF}

\* every buffer with every offset from 0 to one past its end
BufferCalls ==
    {[data |-> b, offset |-> o] :
        b \in SeqsUpTo(BufferBytes, MaxBufferLen), o \in 0..(MaxBufferLen + 1)}

InitVarintAt ==
    /\ pc = "call"
    /\ args \in {c \in BufferCalls : c.offset <= Len(c.data) + 1}
    /\ ret = Pending

DecodeVarintAt ==
    /\ pc = "call"
    /\ ret' = decode_varint(args.data, args.offset)
    /\ pc' = "done"
    /\ UNCHANGED args

NextVarintAt == DecodeVarintAt

SpecVarintAt == InitVarintAt /\ [][NextVarintAt]_vars

\* the indexes, counted from 0, of the bytes at or after offset with bit 7 clear
Terminators == {k \in args.offset..(Len(args.data) - 1) : args.data[k + 1] < 128}

\* through the first terminator, or to the end of the buffer
ExpectedConsumed ==
    IF Terminators # {} THEN SetMin(Terminators) - args.offset + 1
    ELSE Max(Len(args.data) - args.offset, 0)

\* C19: for every buffer and offset >= 0, decode_varint returns (value,
\* consumed) with consumed the distance from offset through the first byte
\* with bit 7 clear, or the bytes left from offset when there is none (0,
\* with value 0, when offset >= len(data)), and value the sum of
\* (byte & 0x7F) << (7 * k) over the k-th consumed byte.
C19_VarintTotal ==
    pc = "done" =>
        /\ ret.consumed = ExpectedConsumed
        /\ args.offset + ret.consumed <= Max(Len(args.data), args.offset)
        /\ ret.value = GroupsValue([k \in 1..ExpectedConsumed |->
                                       args.data[args.offset + k] % 128])
        /\ args.offset >= Len(args.data) => ret = [value |-> <<>>, consumed |-> 0]

\* two bytes with bit 7 set from offset 1 to the end of the buffer: the
\* partial value 127 + (127 << 7)
C19_Witness ==
    /\ pc = "done"
    /\ args = [data |-> <<\h00, \hFF, \hFF>>, offset |-> 1]
    /\ ret = [value |-> [k \in 1..14 |-> 1], consumed |-> 2]


\* ---- the timestamp of a returned Position (SpecParse) ----

\* the occurrence a returned Position was decoded at
ReturnedAt == SetMin(ValidScanned(args.data))

\* the index after the longitude varint of the block at j
AfterLongitude(data, j) ==
    AfterLatitude(data, j) + 1 + decode_varint(data, AfterLatitude(data, j) + 1).consumed

\* the byte right after the longitude varint of the block at j is 0x18
TimestampMarkerAt(data, j) ==
    AfterLongitude(data, j) < Len(data) /\ data[AfterLongitude(data, j) + 1] = \h18

\* C20: the timestamp of a returned Position is the varint decoded right after
\* the 0x18 that immediately follows the longitude varint; when that byte is
\* absent (end of payload) or is not 0x18, the Position is still returned and
\* its timestamp is 0.  The claim is about returned Positions: a call that an
\* earlier candidate ended with an exception returns none.
C20_OptionalTimestamp ==
    pc = "done" =>
        /\ IsPosition(ret) =>
              /\ ValidScanned(args.data) # {}
              /\ ret.timestamp =
                    (IF TimestampMarkerAt(args.data, ReturnedAt)
                     THEN decode_varint(args.data, AfterLongitude(args.data, ReturnedAt) + 1).value
                     ELSE <<>>)
        /\ ScanRuns(args.data) /\ ValidScanned(args.data) # {} /\ ~IsRaise(ret)
           /\ ~TimestampMarkerAt(args.data, ReturnedAt) =>
              IsPosition(ret) /\ ret.timestamp = <<>>

\* the sample block gave its timestamp
C20_Witness ==
    /\ pc = "done"
    /\ IsPosition(ret)
    /\ SampleAt(args.data, ReturnedAt)
    /\ TimestampMarkerAt(args.data, ReturnedAt)
    /\ ret.timestamp = NatBits(1133659075)


\* C21: with a complete 16-byte file header, reading never aborts with an
\* error whatever the timestamp field, the captured length and the frame of a
\* record are: each complete record becomes a packet or is skipped, and
\* reading goes on to the next record until the data ends.
C21_ReadNeverAborts ==
    pc = "done" /\ WholeHeader =>
        /\ ~IsRaise(ret)
        /\ ret.printed = <<>>
        /\ Len(ret.packets) <= Len(args.records)
        /\ Len(args.records) > 0 /\ FrameQualifies(args.records[Len(args.records)].frame) =>
              /\ ret.packets # <<>>
              /\ ret.packets[Len(ret.packets)].ts_us
                    = unpack_be(args.records[Len(args.records)].ts)


\* ---- the accounting of the histogram ----

\* the sum of the counts of a dict
RECURSIVE DictSum(_)
DictSum(d) ==
    IF DOMAIN d = {} THEN 0
    ELSE LET k == CHOOSE x \in DOMAIN d : TRUE
         IN  d[k] + DictSum([x \in DOMAIN d \ {k} |-> d[x]])

\* the in-window command starts that carry key k
WindowCarriers(k) == {i \in WindowStarts : KeyOf(i) = k}

\* the offset of packet i from the session start, as the code computes it
OffsetOf(i) == TrueDivSeconds(args.notifs[i].ts_us, args.t0)

\* C22: after analyze_notifications_in_window over any packet list, total is
\* continuation_count + non_command_count + the sum of the per-key counts; the
\* keys with a first-seen offset are the keys with a count, every count is at
\* least 1, and each key's first-seen offset is the offset of the lowest-index
\* in-window packet carrying that key, hence at most windowSeconds.
C22_HistogramAccounting ==
    pc = "done" =>
        /\ ret.total = ret.frag_data_count + ret.data_count + DictSum(ret.cmd_counts)
        /\ DOMAIN ret.cmd_first_seen = DOMAIN ret.cmd_counts
        /\ \A k \in DOMAIN ret.cmd_counts : ret.cmd_counts[k] >= 1
        /\ \A k \in DOMAIN ret.cmd_first_seen :
              /\ WindowCarriers(k) # {}
              /\ ret.cmd_first_seen[k] = OffsetOf(SetMin(WindowCarriers(k)))
              /\ FloatLeq(ret.cmd_first_seen[k], Float(args.window_sec))

\* a list whose key 02_11 is counted twice, first at a later timestamp than
\* its second packet, next to a second key, a continuation or plain data
C22_Witness ==
    /\ pc = "done"
    /\ "02_11" \in DOMAIN ret.cmd_counts
    /\ ret.cmd_counts["02_11"] = 2
    /\ ret.total = 3
    /\ \E i, j \in WindowCarriers("02_11") :
          i < j /\ args.notifs[i].ts_us > args.notifs[j].ts_us


\* ---- GarminAlphaBridge: the notification callback and the TAK connection ----

DOG_CALLSIGN == "K9-ROVER"

DOG_UID == "GARMIN-TT25-001"

\* the CoT event of a position, by its variable parts: uid, callsign, the
\* second of time and of stale, and the point.  now.replace(second = ...)
\* raises ValueError for a second beyond 59.
generate_cot_xml(position, second) ==
    IF second + 30 > 59 THEN Raised("ValueError")
    ELSE [uid |-> DOG_UID, callsign |-> DOG_CALLSIGN, time |-> second,
          stale |-> second + 30, lat |-> position.lat, lon |-> position.lon]

\* TAKConnection(host, port, cert_file): no socket yet; sent is what the
\* socket has accepted
TAKConnection == [ssl_sock |-> None, sent |-> <<>>]

\* the socket that connect() wraps
SSL_SOCKET == [socket |-> "ssl"]

\* connect(): ssl_sock is assigned before the connection is attempted
connect(tak) == [tak EXCEPT !.ssl_sock = SSL_SOCKET]

\* send_cot(cot_xml): nothing without a socket; a send that fails raises
send_cot(tak, cot_xml, fails) ==
    IF tak.ssl_sock = None THEN tak
    ELSE IF fails THEN Raised("OSError")
    ELSE [tak EXCEPT !.sent = Append(@, cot_xml)]

\* GarminAlphaBridge(tak_host, tak_port, tak_cert)
GarminAlphaBridge == [tak |-> TAKConnection, last_position |-> None, position_count |-> 0]

\* the sample position, a second position without a timestamp, 40 bytes with
\* no collar marker, an empty notification
BridgeNotifications ==
    {COLLAR_MARKER \o Zeros(17) \o SAMPLE_BLOCK,
     COLLAR_MARKER \o Zeros(17) \o <<\h0A, \h0C, \h08, \h02, \h10, \h03>> \o Zeros(16),
     Zeros(40),
     <<>>}

\* position_count left as it is
position_count_kept(count) == count

\* self.position_count += 1
position_count_next(count) == count + 1

\* lines 265-269: the send inside try, its exception caught and printed
try_send_cot(counted, tak) ==
    IF IsRaise(tak)
    THEN [self |-> counted, result |-> None, printed |-> <<"Dog position", "TAK send failed">>]
    ELSE [self |-> [counted EXCEPT !.tak = tak], result |-> None,
          printed |-> <<"Dog position", "Sent to TAK Server">>]

\* lines 261-269: the CoT event is generated outside try, then sent
send_position(counted, cot, fails) ==
    IF IsRaise(cot) THEN [self |-> counted, result |-> cot, printed |-> <<>>]
    ELSE try_send_cot(counted, send_cot(counted.tak, cot, fails))

\* lines 256-269: what the callback does with the parser's result
on_position(self, position, second, fails) ==
    IF IsRaise(position) THEN [self |-> self, result |-> position, printed |-> <<>>]
    ELSE IF position = None THEN [self |-> self, result |-> None, printed |-> <<>>]
    ELSE send_position([self EXCEPT !.position_count = position_count_next(@),
                                    !.last_position = position],
                       generate_cot_xml(position, second), fails)

\* handle_notification(sender, data), at clock second `second`, with a socket
\* whose send fails when `fails`: the bridge after the call, what the call
\* returned or raised, and the lines it printed
handle_notification(self, data, second, fails) ==
    on_position(self, parse_ble_notification(data), second, fails)

\* ---- a bridge that receives notifications ----

\* the most notifications delivered
MaxNotifications == 3

\* the second of the clock when the callback runs: the last one for which
\* second + 30 is a second, and the first one for which it is not
ClockSeconds == {29, 30}

InitBridge ==
    /\ pc = "listening"
    /\ args = [delivered |-> <<>>]
    /\ ret = [self |-> GarminAlphaBridge, result |-> Pending, printed |-> <<>>]

Connect ==
    /\ pc = "listening"
    /\ ret.self.tak.ssl_sock = None
    /\ ret' = [ret EXCEPT !.self.tak = connect(@)]
    /\ UNCHANGED <<pc, args>>

HandleNotification ==
    /\ pc = "listening"
    /\ Len(args.delivered) < MaxNotifications
    /\ \E data \in BridgeNotifications, second \in ClockSeconds, fails \in BOOLEAN :
          /\ args' = [delivered |-> Append(args.delivered, data)]
          /\ ret' = handle_notification(ret.self, data, second, fails)
    /\ UNCHANGED pc

NextBridge == Connect \/ HandleNotification

SpecBridge == InitBridge /\ [][NextBridge]_vars

\* ---- what the claim says of the bridge ----

\* what notification i parsed to
ParsedAt(i) == parse_ble_notification(args.delivered[i])

\* the notifications so far that parsed to a Position
PositionsSoFar == {i \in 1..Len(args.delivered) : IsPosition(ParsedAt(i))}

SetMax(S) == CHOOSE x \in S : \A y \in S : y <= x

\* the counters follow the notifications delivered so far, and a failed send
\* ends in a normal return of a call that was counted
BridgeCounters ==
    pc = "listening" =>
        /\ ret.self.position_count = Cardinality(PositionsSoFar)
        /\ ret.self.last_position
              = IF PositionsSoFar = {} THEN None ELSE ParsedAt(SetMax(PositionsSoFar))
        /\ ret.result # Raised("OSError")
        /\ Len(ret.printed) = 2 /\ ret.printed[2] = "TAK send failed" =>
              /\ ret.result = None
              /\ Len(args.delivered) \in PositionsSoFar

\* a delivery that does not parse to a Position changes nothing in the bridge
\* and nothing in what was sent
NonPositionStep ==
    (/\ Len(args'.delivered) = Len(args.delivered) + 1
     /\ ~IsPosition(parse_ble_notification(args'.delivered[Len(args'.delivered)])))
    => ret'.self = ret.self

\* C23: for any sequence of notifications delivered to handle_notification,
\* position_count is the number of notifications so far that parsed to a
\* Position and last_position the most recently parsed one (None if none); a
\* notification that does not parse to a Position leaves both unchanged and
\* sends nothing; a failure of the TAK send is caught, does not leave the
\* callback, and does not roll back position_count or last_position.
C23_BridgeCounters == []BridgeCounters /\ [][NonPositionStep]_vars

\* the sample position sent, then a notification that is no position, then a
\* second position whose send failed
C23_Witness ==
    /\ pc = "listening"
    /\ Len(args.delivered) = 3
    /\ PositionsSoFar = {1, 3}
    /\ ParsedAt(1) # ParsedAt(3)
    /\ ret.self.position_count = 2
    /\ Len(ret.self.tak.sent) = 1
    /\ ret.printed = <<"Dog position", "TAK send failed">>


\* C24: parse_ble_notification is total on untrusted input: for every byte
\* string (empty, shorter than 40 bytes, ending in the middle of a marker or
\* of an unterminated varint) it returns a Position or None and never raises.
C24_ParseTotal == pc = "done" => IsPosition(ret) \/ ret = None

====
